---- MODULE Spec2Model ----
(***************************************************************************)
(* Session handling of the Mi Band 4 application: the MibandService        *)
(* session (construction, the reconnect guard, connect / disconnect, the   *)
(* commands and the pulse cache) and the start-up of the console front     *)
(* end (MiConsole.__init__ and its menu).                                  *)
(*                                                                         *)
(* Python strings are sequences of one-character strings, bytes objects    *)
(* are sequences of integers 0..255, an attribute that can be deleted is   *)
(* either "absent" or "present" (band) or a sequence of length 0 or 1      *)
(* (pulse).  The transport (bluepy, the Miband library) is the             *)
(* environment: each use of it has a nondeterministic outcome.             *)
(***************************************************************************)
EXTENDS Integers, Sequences, FiniteSets, TLC

\* ------------------------------------------------------------------ bounds

\* Stack depth at which the interpreter raises RecursionError.  CPython's
\* default limit is 1000 frames; what matters to the model is that it is finite.
RecursionLimit == 3

\* Consecutive failed connection attempts followed in the start-up loops.
MaxFailures == 3

\* Heart-rate samples remembered since the last disconnect (the latest ones).
MaxSamples == 2

\* ------------------------------------------------------- program constants

\* miband_service.py:57  len(self.mac_address) != 17
MacLen == 17
\* miband_service.py:63  len(self.auth_key) != 32 (also miband4_console.py:22)
KeyLen == 32

\* ------------------------------------------------------------ input samples

Rep(c, n) == [i \in 1..n |-> c]

\* The key of the console's help text (miband4_console.py:25), 32 hex digits.
K32 == <<"8", "f", "a", "9", "b", "4", "2", "0", "7", "8", "6", "2", "7", "a", "6", "5", "4", "d", "2", "2", "b", "e", "f", "f", "9", "8", "5", "6", "5", "5", "d", "b">>
\* The same key cut to 31 and to 30 characters, and extended to 33.
K31 == SubSeq(K32, 1, 31)
K30 == SubSeq(K32, 1, 30)
K33 == K32 \o <<"0">>
\* 32 characters, the last one not a hex digit.
KBad32 == SubSeq(K32, 1, 31) \o <<"g">>
\* 32 characters: 30 hex digits and two blanks between byte pairs.
KSp32 == <<"8", "f", " ", "a", "9", " ">> \o SubSeq(K32, 5, 30)
\* 32 blanks.
KBlank32 == Rep(" ", 32)

AuthSamples == {<<>>, <<"8">>, K30, K31, K32, K33, KBad32, KSp32, KBlank32}

\* A MAC address in colon-separated form, 17 characters.
M17 == <<"A", "A", ":", "B", "B", ":", "C", "C", ":", "D", "D", ":", "E", "E", ":", "F", "F">>
MacSamples == {<<>>, SubSeq(M17, 1, 16), M17, M17 \o <<"0">>}

\* Heart-rate samples handed to set_pulse.
PulseSamples == {72, 75}

\* Texts handed to send_message.
Messages == {<<>>, <<"h", "i">>}

\* -------------------------------------------------------------- bytes.fromhex

HexDigits == <<"0", "1", "2", "3", "4", "5", "6", "7", "8", "9", "a", "b", "c", "d", "e", "f">>
HexDigitsUpper == <<"0", "1", "2", "3", "4", "5", "6", "7", "8", "9", "A", "B", "C", "D", "E", "F">>

IsHex(c) == \E i \in 1..16 : HexDigits[i] = c \/ HexDigitsUpper[i] = c
HexVal(c) == (CHOOSE i \in 1..16 : HexDigits[i] = c \/ HexDigitsUpper[i] = c) - 1
IsSpace(c) == c \in {" ", "\t", "\n", "\r"}

\* bytes.fromhex(s): blanks between byte pairs are skipped, every pair of hex
\* digits gives one byte, anything else raises ValueError.
RECURSIVE fromhex(_)
fromhex(s) ==
    IF s = <<>> THEN [ok |-> TRUE, bytes |-> <<>>]
    ELSE IF IsSpace(Head(s)) THEN fromhex(Tail(s))
    ELSE IF Len(s) < 2 \/ ~IsHex(s[1]) \/ ~IsHex(s[2]) THEN [ok |-> FALSE, bytes |-> <<>>]
    ELSE LET rest == fromhex(SubSeq(s, 3, Len(s)))
         IN  [ok |-> rest.ok,
              bytes |-> IF rest.ok THEN <<16 * HexVal(s[1]) + HexVal(s[2])>> \o rest.bytes
                        ELSE <<>>]

\* bytes.hex(): two lower-case hex digits per byte.
RECURSIVE tohex(_)
tohex(b) ==
    IF b = <<>> THEN <<>>
    ELSE <<HexDigits[(Head(b) \div 16) + 1], HexDigits[(Head(b) % 16) + 1]>> \o tohex(Tail(b))

\* --------------------------------------------------------------------- state

VARIABLES
    mode,            \* which program runs: "service", "console" or "quick"
    mac_address,     \* the MAC address string given to the constructor
    auth_hex,        \* the auth key string given to the constructor
    auth_key,        \* the auth key after bytes.fromhex
    contacted,       \* TRUE once the transport was used (connect, read or write)
    svc,             \* MibandService: "none", "ready" (constructed) or "ValueError"
    band,            \* attribute self.band: "absent" or "present"
    pulse,           \* attribute self.pulse: <<>> (absent) or <<value>>
    pc,              \* "idle", or "connect" while a connect() call is on the stack
    depth,           \* connect() frames whose try block has succeeded
    initOk,          \* what the last initialize() returned (connect() discards it)
    pumps,           \* threads started by _thread_realtime_pulse
    afterDisconnect, \* disconnect() has run and no connection was made since
    call,            \* the entry-point call in progress or last completed
    prev,            \* the entry-point call before it
    samples,         \* the samples given to set_pulse since the last disconnect
    reading,         \* what the last get_pulse returned: <<>> or <<sensor>>
    conPc,           \* MiConsole: "none", "exit1", "ValueError", "try", "sleep",
                     \*   "menu", "exit", "KeyboardInterrupt"
    success,         \* MiConsole.__init__: local variable success
    menuOp,          \* the menu item run last, "none" before the first
    failures,        \* start-up loop: BTLEDisconnectErrors caught so far
    interrupted,     \* start-up loop: a KeyboardInterrupt was raised
    notif,           \* send_notif: what its last run did
    found,           \* lost_device: local variable found
    lastEvent,       \* pump loops: what the last waitForNotifications brought
    stopReq,         \* pump loops: the user has asked the running loop to stop
    qVariant,        \* call_quick: "lib" (miband4/quick_call.py), "app"
                     \*   (miband4-app/quick_call.py), "none" before the call
    qPc,             \* call_quick: "none", "try", "done", "TypeError", "ValueError"
    qAuth,           \* call_quick: local variable auth, [type, value]
    qFailures        \* call_quick: BTLEDisconnectErrors caught so far

vars == <<mode, mac_address, auth_hex, auth_key, contacted, svc, band, pulse, pc,
          depth, initOk, pumps, afterDisconnect, call, prev, samples, reading, conPc, success,
          menuOp, failures, interrupted, notif, found, lastEvent, stopReq,
          qVariant, qPc, qAuth, qFailures>>

svcAux == <<samples, reading>>
svcVars == <<svc, band, pulse, pc, depth, initOk, pumps, afterDisconnect, call, prev,
             svcAux>>
startVars == <<failures, interrupted>>
loopVars == <<found, lastEvent, stopReq>>
conVars == <<conPc, success, menuOp, startVars, notif, loopVars>>

quickVars == <<qVariant, qPc, qAuth, qFailures>>

NoNotif == [ty |-> 0, sent |-> 0, code |-> 0, result |-> "none"]

NoCall == [op |-> "none", guarded |-> FALSE, entryConnected |-> FALSE,
           triggered |-> FALSE, connects |-> 0, streams |-> 0,
           lastAttempt |-> "none", usedBand |-> FALSE, result |-> "none"]

\* A call of entry point op at its entry; g: op carries the reconnect decorator.
NewCall(op, g) == [NoCall EXCEPT !.op = op, !.guarded = g,
                                 !.entryConnected = (band = "present"),
                                 !.result = "pending"]

Init ==
    /\ mode \in {"service", "console", "quick"}
    /\ mac_address = <<>>
    /\ auth_hex = <<>>
    /\ auth_key = <<>>
    /\ contacted = FALSE
    /\ svc = "none"
    /\ band = "absent"
    /\ pulse = <<>>
    /\ pc = "idle"
    /\ depth = 0
    /\ initOk = FALSE
    /\ pumps = 0
    /\ afterDisconnect = FALSE
    /\ call = NoCall
    /\ prev = NoCall
    /\ samples = <<>>
    /\ reading = <<>>
    /\ conPc = "none"
    /\ success = FALSE
    /\ menuOp = "none"
    /\ failures = 0
    /\ interrupted = FALSE
    /\ notif = NoNotif
    /\ found = FALSE
    /\ lastEvent = "none"
    /\ stopReq = FALSE
    /\ qVariant = "none"
    /\ qPc = "none"
    /\ qAuth = [type |-> "str", value |-> <<>>]
    /\ qFailures = 0

\* ------------------------------------------------------------ MibandService

\* Variant of MibandService_validate without the check of the MAC length.
MibandService_validate_no_mac(mac, auth) ==
    IF Len(auth) # KeyLen THEN [ok |-> FALSE, key |-> <<>>]
    ELSE [ok |-> fromhex(auth).ok, key |-> fromhex(auth).bytes]

\* MibandService.__init__: the length checks and the hex decoding of the key.
MibandService_validate(mac, auth) ==
    IF Len(mac) # MacLen THEN [ok |-> FALSE, key |-> <<>>]
    ELSE IF Len(auth) # KeyLen THEN [ok |-> FALSE, key |-> <<>>]
    ELSE [ok |-> fromhex(auth).ok, key |-> fromhex(auth).bytes]

\* MibandService(config): config.get("mac_address", ""), config.get("auth_key", "").
MibandService_init(mac, auth) ==
    /\ mode = "service"
    /\ svc = "none"
    /\ mac_address' = mac
    /\ auth_hex' = auth
    /\ LET v == MibandService_validate(mac, auth)
       IN  /\ svc' = IF v.ok THEN "ready" ELSE "ValueError"
           /\ auth_key' = v.key
    /\ UNCHANGED <<mode, contacted, band, pulse, pc, depth, initOk, pumps,
                   afterDisconnect, call, prev, svcAux, conVars, quickVars>>

\* Variant of is_freezed with "and" for "or".
is_freezed_and(mac, key) == mac = <<>> /\ key = <<>>

\* is_freezed(): not self.mac_address or not self.auth_key.
is_freezed(mac, key) == mac = <<>> \/ key = <<>>

\* is_connected(): the attribute self.band exists.
is_connected(b) == b = "present"

\* Variant of reconnect that connects without asking is_connected().
reconnect_always(mac, key, b) ==
    IF is_freezed(mac, key) THEN "FreezedMibandError" ELSE "connect"

\* The wrapper of the reconnect decorator, up to the call of the wrapped
\* function: "FreezedMibandError", "connect" (miband.connect() is called) or
\* "call" (the wrapped function is called at once).
reconnect(mac, key, b) ==
    IF is_freezed(mac, key) THEN "FreezedMibandError"
    ELSE IF ~is_connected(b) THEN "connect"
    ELSE "call"

\* Variant of connect_else with lines 86 and 87 exchanged: the thread is
\* started before the call self.connect().
connect_else_thread_first(d, p) == [depth |-> d + 1, pumps |-> p + 1]

\* Variant of connect_except without the call of disconnect().
connect_except_keep(b, p) == [band |-> b, pulse |-> p, result |-> "ValueError"]

\* connect(), lines 82-87: the else branch that follows a successful try
\* block.  Its first statement is the call self.connect() (line 86);
\* _thread_realtime_pulse() (line 87) comes after that call has returned, so
\* the branch pushes one more frame and starts no thread.
connect_else(d, p) == [depth |-> d + 1, pumps |-> p]

\* connect(), lines 77-81: a BTLEDisconnectError in the try block.
\* disconnect() deletes the attributes band and pulse, then ValueError is raised.
connect_except(b, p) == [band |-> "absent", pulse |-> <<>>, result |-> "ValueError"]

\* An entry-point call begins: the previous one becomes prev.
Begin(c) ==
    /\ call' = c
    /\ prev' = call

Ready == mode = "service" /\ svc = "ready" /\ pc = "idle"

\* connect() called directly.
connect ==
    /\ Ready
    /\ Begin(NewCall("connect", FALSE))
    /\ pc' = "connect"
    /\ depth' = 0
    /\ UNCHANGED <<mode, mac_address, auth_hex, auth_key, contacted, svc, band, pulse,
                   initOk, pumps, afterDisconnect, svcAux, conVars, quickVars>>

\* One execution of the try block of connect() (lines 73-81) in the innermost
\* frame: NativeMiband(...) and band.initialize().  outcome is what the
\* transport does: initialize() returns True ("authenticated") or False
\* ("unauthenticated"), or BTLEDisconnectError is raised ("disconnect").
connect_try(outcome) ==
    /\ mode = "service"
    /\ pc = "connect"
    /\ depth < RecursionLimit
    /\ contacted' = TRUE
    /\ IF outcome = "disconnect"
       THEN LET x == connect_except(band, pulse)
            IN  /\ band' = x.band
                /\ pulse' = x.pulse
                /\ afterDisconnect' = TRUE
                /\ pc' = "idle"
                /\ depth' = 0
                /\ call' = [call EXCEPT !.connects = @ + 1,
                                        !.lastAttempt = "disconnect",
                                        !.result = x.result]
                /\ samples' = <<>>
                /\ UNCHANGED <<initOk, pumps>>
       ELSE LET e == connect_else(depth, pumps)
            IN  /\ band' = "present"
                /\ initOk' = (outcome = "authenticated")
                /\ afterDisconnect' = FALSE
                /\ depth' = e.depth
                /\ pumps' = e.pumps
                /\ call' = [call EXCEPT !.connects = @ + 1,
                                        !.lastAttempt = "ok",
                                        !.streams = @ + (e.pumps - pumps)]
                /\ UNCHANGED <<pulse, pc, samples>>
    /\ UNCHANGED <<mode, mac_address, auth_hex, auth_key, svc, prev, reading, conVars, quickVars>>

\* The call self.connect() of line 86 with the stack at the interpreter's
\* limit: RecursionError, which no frame of connect() catches.
connect_overflow ==
    /\ mode = "service"
    /\ pc = "connect"
    /\ depth = RecursionLimit
    /\ pc' = "idle"
    /\ depth' = 0
    /\ call' = [call EXCEPT !.result = "RecursionError"]
    /\ UNCHANGED <<mode, mac_address, auth_hex, auth_key, contacted, svc, band, pulse,
                   initOk, pumps, afterDisconnect, prev, svcAux, conVars, quickVars>>

\* disconnect() called directly: del self.band, del self.pulse.
disconnect ==
    /\ Ready
    /\ Begin([NewCall("disconnect", FALSE) EXCEPT !.result = "ok"])
    /\ band' = "absent"
    /\ pulse' = <<>>
    /\ afterDisconnect' = TRUE
    /\ samples' = <<>>
    /\ UNCHANGED <<mode, mac_address, auth_hex, auth_key, contacted, svc, pc, depth,
                   initOk, pumps, reading, conVars, quickVars>>

\* A method of self.band called from a command body: AttributeError when the
\* attribute band is absent, else what the transport does ("ok" or
\* "BTLEDisconnectError").  Nothing in the command path deletes self.band.
band_call(b, outcome) == IF b = "absent" THEN "AttributeError" ELSE outcome

\* _get_pulse(): self.pulse, or AttributeError when the attribute is absent.
get_pulse_body(p) == IF p = <<>> THEN "AttributeError" ELSE "ok"

\* get_pulse, line 120: FloatSensor(token='pulse', value=float(pulse)).  The
\* cached pulse is an int; float() of an int of this size is the same number.
FloatSensor(v) == [token |-> "pulse", value |-> v]

\* The effect of the wrapper on a decorated entry point op whose body, when
\* it is called at once, ends with bodyResult and uses the band iff uses.
Guarded(op, bodyResult, uses) ==
    LET g == reconnect(mac_address, auth_key, band)
        c == NewCall(op, TRUE)
    IN  /\ Ready
        /\ IF g = "FreezedMibandError"
           THEN /\ Begin([c EXCEPT !.result = "FreezedMibandError"])
                /\ UNCHANGED <<pc, depth, contacted, reading>>
           ELSE IF g = "connect"
           THEN /\ Begin([c EXCEPT !.triggered = TRUE])
                /\ pc' = "connect"
                /\ depth' = 0
                /\ UNCHANGED <<contacted, reading>>
           ELSE /\ Begin([c EXCEPT !.result = bodyResult,
                                   !.usedBand = (uses /\ band = "present")])
                /\ contacted' = (contacted \/ (uses /\ band = "present"))
                /\ reading' = IF op = "get_pulse" /\ bodyResult = "ok"
                              THEN <<FloatSensor(pulse[1])>>
                              ELSE reading
                /\ UNCHANGED <<pc, depth>>
        /\ UNCHANGED <<mode, mac_address, auth_hex, auth_key, svc, band, pulse,
                       initOk, pumps, afterDisconnect, samples, conVars, quickVars>>

\* An entry point without the decorator: the body runs at once.
Unguarded(op, bodyResult, uses) ==
    /\ Ready
    /\ Begin([NewCall(op, FALSE) EXCEPT !.result = bodyResult,
                                        !.usedBand = (uses /\ band = "present")])
    /\ contacted' = (contacted \/ (uses /\ band = "present"))
    /\ UNCHANGED <<mode, mac_address, auth_hex, auth_key, svc, band, pulse, pc, depth,
                   initOk, pumps, afterDisconnect, svcAux, conVars, quickVars>>

\* @reconnect get_pulse(): FloatSensor(value=float(self._get_pulse())).
get_pulse == Guarded("get_pulse", get_pulse_body(pulse), FALSE)

\* @reconnect get_info(): reads of the band, among them get_battery_charge().
get_info(outcome) == Guarded("get_info", band_call(band, outcome), TRUE)

\* get_battery_charge(): self.band.get_battery_info()["level"], no decorator.
get_battery_charge(outcome) ==
    Unguarded("get_battery_charge", band_call(band, outcome), TRUE)

\* send_message(message), no decorator: ValueError for an empty message, else
\* self.band.send_custom_alert(5, "CyberPAS", message).
send_message(message, outcome) ==
    IF Len(message) > 0
    THEN Unguarded("send_message", band_call(band, outcome), TRUE)
    ELSE Unguarded("send_message", "ValueError", FALSE)

\* The remembered samples with one more: the oldest is dropped when full.
Push(s, v) == IF Len(s) < MaxSamples THEN Append(s, v) ELSE Append(Tail(s), v)

\* Variant of set_pulse_store that averages with the cached value (the TODO
\* of lines 135-136).
set_pulse_average(p, v) == IF p = <<>> THEN <<v>> ELSE <<(p[1] + v) \div 2>>

\* set_pulse, line 138: self.pulse = value.
set_pulse_store(p, v) == <<v>>

\* set_pulse(value): self.pulse = value, whatever the state of the session;
\* the heart-rate callback, run on its own thread.
set_pulse(value) ==
    /\ mode = "service"
    /\ svc = "ready"
    /\ pulse' = set_pulse_store(pulse, value)
    /\ samples' = Push(samples, value)
    /\ UNCHANGED <<mode, mac_address, auth_hex, auth_key, contacted, svc, band, pc,
                   depth, initOk, pumps, afterDisconnect, call, prev, reading,
                   conVars, quickVars>>

\* ---------------------------------------------------------------- MiConsole

\* MiConsole.__init__, lines 20-28: the check of the auth key and its decoding.
\* "exit1": exit(1) of line 26; "ValueError": raised by bytes.fromhex; "try":
\* the start-up loop is entered.
MiConsole_validate(mac, auth) ==
    IF auth # <<>> /\ 1 < Len(auth) /\ Len(auth) # KeyLen
    THEN [pc |-> "exit1", key |-> <<>>]
    ELSE IF ~fromhex(auth).ok THEN [pc |-> "ValueError", key |-> <<>>]
    ELSE [pc |-> "try", key |-> fromhex(auth).bytes]

MiConsole_init(mac, auth) ==
    /\ mode = "console"
    /\ conPc = "none"
    /\ mac_address' = mac
    /\ auth_hex' = auth
    /\ LET v == MiConsole_validate(mac, auth)
       IN  /\ conPc' = v.pc
           /\ auth_key' = v.key
    /\ success' = FALSE
    /\ UNCHANGED <<mode, contacted, svcVars, quickVars, menuOp, startVars, notif, loopVars>>

\* Lines 31-42, one pass of the try block: Miband(...) and initialize().
\* initialize() returns True or False and the loop is left by break either
\* way; BTLEDisconnectError leads to the sleep; KeyboardInterrupt to exit().
\* after_initialize(r): the value of success and where the loop goes.
after_initialize(r) == [success |-> r, pc |-> "menu"]

console_try(outcome) ==
    /\ mode = "console"
    /\ conPc = "try"
    /\ IF outcome \in {"true", "false"}
       THEN LET a == after_initialize(outcome = "true")
            IN  /\ success' = a.success
                /\ conPc' = a.pc
                /\ contacted' = TRUE
                /\ UNCHANGED <<failures, interrupted>>
       ELSE IF outcome = "disconnect"
       THEN /\ failures < MaxFailures
            /\ failures' = failures + 1
            /\ conPc' = "sleep"
            /\ contacted' = TRUE
            /\ UNCHANGED <<success, interrupted>>
       ELSE /\ conPc' = "exit"
            /\ interrupted' = TRUE
            /\ UNCHANGED <<success, contacted, failures>>
    /\ UNCHANGED <<mode, mac_address, auth_hex, auth_key, svcVars, quickVars, menuOp, notif,
                   loopVars>>

\* Line 38, time.sleep(3) in the handler of BTLEDisconnectError, then
\* continue.  A KeyboardInterrupt raised here is outside the try block and
\* is not caught.
\* Variant of after_sleep that gives up after a failed attempt.
after_sleep_giveup(i) == IF i THEN "KeyboardInterrupt" ELSE "menu"

\* Where the handler goes after time.sleep(3): back to the loop test, which
\* success = False passes, unless KeyboardInterrupt was raised.
after_sleep(i) == IF i THEN "KeyboardInterrupt" ELSE "try"

console_sleep(i) ==
    /\ mode = "console"
    /\ conPc = "sleep"
    /\ conPc' = after_sleep(i)
    /\ interrupted' = i
    /\ UNCHANGED <<mode, mac_address, auth_hex, auth_key, contacted, svcVars, quickVars,
                   success, menuOp, failures, notif, loopVars>>

\* The menu of lines 44-67; the items whose label starts with "@".
MenuItems == {"general_info", "get_step_count", "send_notif", "get_heart_rate",
              "get_realtime", "get_activity_logs", "set_time", "set_music",
              "lost_device", "update_watchface", "restore_firmware"}
AuthMarked == {"get_step_count", "get_heart_rate", "get_realtime",
               "get_activity_logs", "set_time", "update_watchface",
               "restore_firmware"}

\* The items that run a loop of their own, and send_notif, have their own
\* actions; the others call into self.band once.
LoopItems == {"set_music", "lost_device", "get_activity_logs"}
SimpleItems == (MenuItems \ LoopItems) \ {"send_notif"}

\* menu.show(): the user runs an item, which calls into self.band.
menu_item(item) ==
    /\ mode = "console"
    /\ conPc = "menu"
    /\ item \in SimpleItems
    /\ menuOp' = item
    /\ contacted' = TRUE
    /\ UNCHANGED <<mode, mac_address, auth_hex, auth_key, svcVars, quickVars, conPc, success,
                   startVars, notif, loopVars>>

\* The selectors typed at the prompt of send_notif.
TySamples == -1..6

\* Variant of alert_code with the identity for the table.
alert_code_identity(ty) == ty

\* send_notif, lines 96-97: a = [1,5,4,3]; a[ty-1], with Python's indexing
\* (a negative index counts from the end).
alert_code(ty) ==
    LET a == <<1, 5, 4, 3>>
        i == ty - 1
    IN  a[(IF i < 0 THEN i + Len(a) ELSE i) + 1]

\* Variant of send_notif_body whose range check lacks "ty < 1".
send_notif_body_no_lower(ty) ==
    IF ty > 4
    THEN [ty |-> ty, sent |-> 0, code |-> 0, result |-> "returned"]
    ELSE [ty |-> ty, sent |-> 1, code |-> alert_code(ty), result |-> "returned"]

\* send_notif, lines 91-97: outside 1..4 it prints 'Invalid choice', sleeps
\* and returns; inside it calls send_custom_alert once and returns.
send_notif_body(ty) ==
    IF ty > 4 \/ ty < 1
    THEN [ty |-> ty, sent |-> 0, code |-> 0, result |-> "returned"]
    ELSE [ty |-> ty, sent |-> 1, code |-> alert_code(ty), result |-> "returned"]

send_notif(ty) ==
    /\ mode = "console"
    /\ conPc = "menu"
    /\ menuOp' = "send_notif"
    /\ notif' = send_notif_body(ty)
    /\ contacted' = (contacted \/ send_notif_body(ty).sent > 0)
    /\ UNCHANGED <<mode, mac_address, auth_hex, auth_key, svcVars, quickVars, conPc, success,
                   startVars, loopVars>>

\* A menu item enters its loop.
EnterLoop(item) ==
    /\ mode = "console"
    /\ conPc = "menu"
    /\ menuOp' = item
    /\ conPc' = "loop"
    /\ found' = FALSE
    /\ lastEvent' = "none"
    /\ stopReq' = FALSE
    /\ contacted' = TRUE
    /\ UNCHANGED <<mode, mac_address, auth_hex, auth_key, svcVars, quickVars, success,
                   startVars, notif>>

InLoop(item) == mode = "console" /\ conPc = "loop" /\ menuOp = item

\* One pass of a loop that has no exit: the state after waitForNotifications.
LoopOn(event) ==
    /\ lastEvent' = event
    /\ UNCHANGED <<mode, mac_address, auth_hex, auth_key, contacted, svcVars, quickVars, conPc,
                   success, menuOp, startVars, notif, found, stopReq>>

\* set_music, lines 125-141: callbacks and track are set, then the loop.
set_music == EnterLoop("set_music")

\* set_music, lines 142-144: while True: if waitForNotifications(0.5): continue.
music_wait(event) == InLoop("set_music") /\ LoopOn(event)

\* get_activity_logs, lines 177-178: the query is sent, then the loop.
get_activity_logs == EnterLoop("get_activity_logs")

\* get_activity_logs, lines 179-180: while True: waitForNotifications(0.2).
activity_wait(event) == InLoop("get_activity_logs") /\ LoopOn(event)

\* lost_device, lines 147-166: found = False, the callbacks are registered.
lost_device == EnterLoop("lost_device")

\* Variant of lost_found in which the lost callback ends the search too.
lost_found_any(event, f) == f \/ event \in {"lost", "found"}

\* lost_device, lines 150-163: the callbacks run inside waitForNotifications;
\* only found_device_callback assigns found.
lost_found(event, f) == f \/ event = "found"

\* lost_device, lines 167-170: one pass of "while not found", then the loop
\* test; when found the function returns to the menu after input().
lost_wait(event) ==
    /\ InLoop("lost_device")
    /\ lastEvent' = event
    /\ found' = lost_found(event, found)
    /\ conPc' = IF lost_found(event, found) THEN "menu" ELSE "loop"
    /\ UNCHANGED <<mode, mac_address, auth_hex, auth_key, contacted, svcVars, quickVars,
                   success, menuOp, startVars, notif, stopReq>>

\* The user asks the running loop to stop.  None of the three loops reads a
\* flag, a token or the keyboard, so the request changes nothing they test.
request_stop ==
    /\ mode = "console"
    /\ conPc = "loop"
    /\ ~stopReq
    /\ stopReq' = TRUE
    /\ UNCHANGED <<mode, mac_address, auth_hex, auth_key, contacted, svcVars, quickVars, conPc,
                   success, menuOp, startVars, notif, found, lastEvent>>

WaitEvents == {"timeout", "notification"}
LostEvents == {"timeout", "lost", "found"}

\* One pass of whichever pump loop is running.
PumpStep ==
    \/ \E e \in WaitEvents : music_wait(e)
    \/ \E e \in WaitEvents : activity_wait(e)
    \/ \E e \in LostEvents : lost_wait(e)

\* ---------------------------------------------------------------- call_quick

\* call_quick(mac, auth) of miband4/quick_call.py ("lib") and call_quick(mac)
\* of miband4-app/quick_call.py ("app", which has no auth parameter).
call_quick(variant, mac, auth) ==
    /\ mode = "quick"
    /\ qPc = "none"
    /\ variant = "app" => auth = <<>>
    /\ qVariant' = variant
    /\ mac_address' = mac
    /\ auth_hex' = auth
    /\ qAuth' = [type |-> "str", value |-> auth]
    /\ qPc' = "try"
    /\ UNCHANGED <<mode, auth_key, contacted, svcVars, conVars, qFailures>>

\* miband4/quick_call.py line 13, auth = bytes.fromhex(auth), the first
\* statement of every pass: TypeError when auth is no str (fromhex takes a
\* str), ValueError when it is no hex string, else auth becomes the bytes.
\* The app variant has no such statement.
quick_convert(variant, a) ==
    IF variant = "app" THEN [pc |-> "try", auth |-> a]
    ELSE IF a.type # "str" THEN [pc |-> "TypeError", auth |-> a]
    ELSE IF ~fromhex(a.value).ok THEN [pc |-> "ValueError", auth |-> a]
    ELSE [pc |-> "try", auth |-> [type |-> "bytes", value |-> fromhex(a.value).bytes]]

\* One pass of the loop body: the conversion, then Miband(...),
\* send_custom_alert, waitForNotifications(10) and disconnect(), any of which
\* can raise BTLEDisconnectError ("disconnect"); "ok": all four completed and
\* the loop is left by break.
quick_try(outcome) ==
    /\ mode = "quick"
    /\ qPc = "try"
    /\ LET c == quick_convert(qVariant, qAuth)
       IN  /\ qAuth' = c.auth
           /\ IF c.pc # "try"
              THEN /\ qPc' = c.pc
                   /\ UNCHANGED <<qFailures, contacted>>
              ELSE IF outcome = "ok"
              THEN /\ qPc' = "done"
                   /\ contacted' = TRUE
                   /\ UNCHANGED qFailures
              ELSE /\ qFailures < MaxFailures
                   /\ qFailures' = qFailures + 1
                   /\ qPc' = "try"
                   /\ contacted' = TRUE
    /\ UNCHANGED <<mode, mac_address, auth_hex, auth_key, svcVars, conVars, qVariant>>

\* ------------------------------------------------------------ specification

TransportOutcomes == {"ok", "BTLEDisconnectError"}

Next ==
    \/ \E mac \in MacSamples, auth \in AuthSamples : MibandService_init(mac, auth)
    \/ connect
    \/ \E o \in {"authenticated", "unauthenticated", "disconnect"} : connect_try(o)
    \/ connect_overflow
    \/ disconnect
    \/ get_pulse
    \/ \E o \in TransportOutcomes : get_info(o)
    \/ \E o \in TransportOutcomes : get_battery_charge(o)
    \/ \E m \in Messages, o \in TransportOutcomes : send_message(m, o)
    \/ \E v \in PulseSamples : set_pulse(v)
    \/ \E mac \in MacSamples, auth \in AuthSamples : MiConsole_init(mac, auth)
    \/ \E o \in {"true", "false", "disconnect", "interrupt"} : console_try(o)
    \/ \E i \in BOOLEAN : console_sleep(i)
    \/ \E item \in SimpleItems : menu_item(item)
    \/ \E ty \in TySamples : send_notif(ty)
    \/ set_music
    \/ get_activity_logs
    \/ lost_device
    \/ \E e \in WaitEvents : music_wait(e)
    \/ \E e \in WaitEvents : activity_wait(e)
    \/ \E e \in LostEvents : lost_wait(e)
    \/ request_stop
    \/ \E v \in {"lib", "app"}, mac \in MacSamples, auth \in AuthSamples :
          call_quick(v, mac, auth)
    \/ \E o \in {"ok", "disconnect"} : quick_try(o)

Spec == Init /\ [][Next]_vars

\* A loop that is running keeps running: its passes are taken.
FairSpec == Spec /\ WF_vars(PumpStep)


\* -------------------------------------------------------------------- claims

Commands == {"get_pulse", "get_info", "get_battery_charge", "send_message"}

\* A call that ran connect() (directly or from the wrapper) has ended.
ConnectEnded ==
    /\ pc = "idle"
    /\ call.op = "connect" \/ call.triggered
    /\ call.connects > 0

\* C1: a connect() in which every transport connection and initialisation
\* succeeded returns normally, with the realtime heart-rate stream started
\* exactly once.
C1_ConnectReturnsStreamStartedOnce ==
    (ConnectEnded /\ call.lastAttempt = "ok")
        => (call.result \notin {"RecursionError", "ValueError"} /\ call.streams = 1)

\* C2: every command entered on a disconnected session has triggered a
\* reconnect (or was refused as freezed) before its body runs.
C2_EveryCommandReconnects ==
    (call.op \in Commands /\ ~call.entryConnected)
        => (call.triggered \/ call.result = "FreezedMibandError")

C5_DisconnectErrorMarksDisconnected ==
    call.result = "BTLEDisconnectError" => ~is_connected(band)

\* C6 as stated: a guarded call on a connected session makes no transport
\* connection, and two back-to-back guarded calls make at most one in total.
C6_TwoCallsConnectAtMostOnce ==
    /\ (call.guarded /\ call.entryConnected) => call.connects = 0
    /\ (call.guarded /\ prev.guarded) => call.connects + prev.connects <= 1

\* C6 as amended: a guarded call on a connected session makes no transport
\* connection; one that starts on a disconnected, not freezed session and has
\* ended has made at least one.
C6_ConnectedCallsDoNotConnect ==
    /\ (call.guarded /\ call.entryConnected)
          => (call.connects = 0 /\ ~call.triggered)
    /\ (call.guarded /\ ~call.entryConnected
          /\ call.result \notin {"pending", "FreezedMibandError"})
          => call.connects >= 1

C6_Witness ==
    /\ call.guarded /\ call.entryConnected /\ call.result = "ok"
    /\ prev.guarded /\ prev.entryConnected

\* C7: from the return of disconnect() to the next successful connection
\* the session has neither a band nor a cached pulse, so a pulse read fails.
C7_NoPulseAfterDisconnect ==
    afterDisconnect => (band = "absent" /\ get_pulse_body(pulse) = "AttributeError")

C9_AuthenticatedOnly ==
    /\ menuOp \in AuthMarked => success
    /\ pumps > 0 => initOk

Constructed == svc # "none" \/ conPc # "none"
Rejected == svc = "ValueError" \/ conPc \in {"exit1", "ValueError"}
AllHex(s) == \A i \in 1..Len(s) : IsHex(s[i])

C11_AlertTable ==
    notif.ty \in 1..4
        => /\ notif.sent = 1
           /\ notif.ty = 1 => notif.code = 1
           /\ notif.ty = 2 => notif.code = 5
           /\ notif.ty = 3 => notif.code = 4
           /\ notif.ty = 4 => notif.code = 3

C11_Witness == menuOp = "send_notif" /\ notif.ty = 2 /\ notif.sent = 1 /\ notif.code = 5

\* send_notif has run with a selector outside 1..4.
BadSelector == notif.result # "none" /\ notif.ty \notin 1..4

C13_LoopsStopOnRequest == (conPc = "loop" /\ stopReq) ~> (conPc # "loop")

\* C14: the search loop of lost_device runs as long as found is false; it is
\* left in the pass in which the found callback ran, and in no other: a lost
\* event or a timeout leaves it running.
C14_SearchEndsOnFound ==
    /\ [](InLoop("lost_device") => ~found)
    /\ [][InLoop("lost_device")
            => /\ found' <=> conPc' = "menu"
               /\ found' <=> lastEvent' = "found"
               /\ conPc' \in {"menu", "loop"}]_vars

C14_Witness == menuOp = "lost_device" /\ conPc = "menu" /\ found /\ lastEvent = "found"

Ended == conPc \in {"exit", "KeyboardInterrupt"}

\* C15: in the start-up loop a transport disconnect error leads to the
\* 3-second sleep and from there to a new attempt, however many failed
\* before; a user interrupt ends the loop: no step follows it, so no further
\* attempt is made and the menu is not shown.
C15_StartupRetriesUntilInterrupt ==
    /\ [](interrupted => (Ended /\ menuOp = "none"))
    /\ [][/\ (conPc = "try" /\ failures' > failures) => conPc' = "sleep"
          /\ (conPc = "sleep" /\ ~interrupted') => conPc' = "try"
          /\ ~interrupted]_vars

C15_Witness == conPc = "try" /\ failures >= 2 /\ ~interrupted

\* C16: the menu is reached only after an attempt whose initialize()
\* returned True.
C16_MenuOnlyAfterSuccess == conPc \in {"menu", "loop"} => success


Last(s) == s[Len(s)]

\* C17: after samples s1..sn (n >= 1) were given to set_pulse with no
\* disconnect in between the cached pulse is sn and get_pulse returns sn;
\* before any sample a pulse read fails.
C17_PulseIsLastSample ==
    /\ [](samples # <<>> => pulse = <<Last(samples)>>)
    /\ [](samples = <<>> => get_pulse_body(pulse) = "AttributeError")
    /\ [][(call' # call /\ call'.op = "get_pulse" /\ call'.result = "ok")
            => reading' = <<FloatSensor(Last(samples))>>]_vars

C17_Witness ==
    /\ call.op = "get_pulse" /\ call.result = "ok"
    /\ Len(samples) >= 2 /\ samples[Len(samples) - 1] # Last(samples)
    /\ reading = <<FloatSensor(Last(samples))>>


\* C18: in call_quick an attempt that failed with a transport disconnect
\* error is followed by a further attempt with the MAC address and the auth
\* key as they were given, and the loop ends only when one attempt has
\* completed the alert, the wait and the disconnect.
C18_QuickRetriesWithSameInput ==
    /\ qFailures > 0 => (qAuth.type = "str" /\ qAuth.value = auth_hex)
    /\ qFailures > 0 => qPc \in {"try", "done"}
    /\ qPc \notin {"none", "try"} => qPc = "done"


AllBlank(s) == \A i \in 1..Len(s) : IsSpace(s[i])

====
